---- MODULE Spec2Model ----
(***************************************************************************)
(* ris-live-rs: decoding of RIS Live JSON messages into BGP elements.      *)
(*                                                                         *)
(* The module models parse_ris_live_message (src/src/lib.rs) and the       *)
(* reader loop that calls it (src/src/main.rs, src/src/reader/main.rs).    *)
(*                                                                         *)
(* Texts (Rust Strings) are sequences of one-character strings, so that    *)
(* split(':'), parse::<u32>(), parse::<IpAddr>() and string comparison are *)
(* computed and not assumed.                                               *)
(***************************************************************************)
EXTENDS Integers, Sequences, FiniteSets, TLC

(***************************************************************************)
(* Option<T> and Result<T, E>                                              *)
(***************************************************************************)
None == [some |-> FALSE]

Some(x) == [some |-> TRUE, val |-> x]

Ok(x) == [ok |-> TRUE, val |-> x]

Err(e) == [ok |-> FALSE, err |-> e]

(***************************************************************************)
(* Text helpers                                                            *)
(***************************************************************************)
DecDigits == <<"0", "1", "2", "3", "4", "5", "6", "7", "8", "9">>

HexDigits == DecDigits \o <<"a", "b", "c", "d", "e", "f">>

IsDecDigit(c) == \E i \in 1..Len(DecDigits) : DecDigits[i] = c

IsHexDigit(c) == \E i \in 1..Len(HexDigits) : HexDigits[i] = c

DigitVal(c) == (CHOOSE i \in 1..Len(HexDigits) : HexDigits[i] = c) - 1

AllDec(s) == \A i \in 1..Len(s) : IsDecDigit(s[i])

AllHex(s) == \A i \in 1..Len(s) : IsHexDigit(s[i])

\* str::split(sep): the pieces between the separators; a text without the
\* separator (the empty text too) is one piece.
RECURSIVE Split(_, _)
Split(s, sep) ==
    IF \A i \in 1..Len(s) : s[i] # sep
    THEN <<s>>
    ELSE LET k == CHOOSE i \in 1..Len(s) :
                      s[i] = sep /\ \A j \in 1..(i - 1) : s[j] # sep
         IN  <<SubSeq(s, 1, k - 1)>> \o Split(SubSeq(s, k + 1, Len(s)), sep)

\* The value of a text of digits in the given radix (small values only).
RECURSIVE DigitsValue(_, _)
DigitsValue(s, radix) ==
    IF s = <<>> THEN 0
    ELSE DigitsValue(SubSeq(s, 1, Len(s) - 1), radix) * radix
         + DigitVal(s[Len(s)])

RECURSIVE StripZeros(_)
StripZeros(s) ==
    IF Len(s) > 1 /\ s[1] = "0" THEN StripZeros(Tail(s)) ELSE s

\* s <= t for two texts of decimal digits of the same length.
RECURSIVE DecLeq(_, _)
DecLeq(s, t) ==
    IF s = <<>> THEN TRUE
    ELSE IF DigitVal(s[1]) < DigitVal(t[1]) THEN TRUE
    ELSE IF DigitVal(s[1]) > DigitVal(t[1]) THEN FALSE
    ELSE DecLeq(Tail(s), Tail(t))

\* u32::MAX, 4294967295, as a text: the value does not fit a TLC integer, so
\* a parsed u32 is kept as its canonical decimal text.
U32MaxText == <<"4", "2", "9", "4", "9", "6", "7", "2", "9", "5">>

\* str::parse::<u32>(): an optional '+', then one or more decimal digits
\* whose value is at most u32::MAX.
ParseU32(s) ==
    LET body == IF Len(s) > 0 /\ s[1] = "+" THEN Tail(s) ELSE s
        canon == StripZeros(body)
    IN  IF body = <<>> \/ ~AllDec(body) THEN Err("ParseIntError")
        ELSE IF Len(canon) < Len(U32MaxText)
                \/ (Len(canon) = Len(U32MaxText) /\ DecLeq(canon, U32MaxText))
        THEN Ok(canon)
        ELSE Err("ParseIntError")

\* One octet of a dotted quad: 1 to 3 digits, no leading zero, at most 255.
IsOctet(p) ==
    /\ Len(p) \in 1..3
    /\ AllDec(p)
    /\ (Len(p) > 1 => p[1] # "0")
    /\ DigitsValue(p, 10) <= 255

Ipv4OfParts(parts) ==
    IF Len(parts) = 4 /\ \A i \in 1..4 : IsOctet(parts[i])
    THEN Ok([v |-> 4, addr |-> [i \in 1..4 |-> DigitsValue(parts[i], 10)]])
    ELSE Err("AddrParseError")

\* A dotted quad of four octets.
ParseIpv4(s) == Ipv4OfParts(Split(s, "."))

IsGroup(p) == Len(p) \in 1..4 /\ AllHex(p)

Zeros(n) == [i \in 1..n |-> 0]

\* "::x" splits into <<"", "", x>> and "x::" into <<x, "", "">>.
LeadGap(parts) ==
    Len(parts) >= 3 /\ parts[1] = <<>> /\ parts[2] = <<>>

TrailGap(parts) ==
    Len(parts) >= 3 /\ parts[Len(parts)] = <<>> /\ parts[Len(parts) - 1] = <<>>

\* The groups with the gap of "::" filled with zero groups.
FillGap(groups, g) ==
    SubSeq(groups, 1, g - 1) \o Zeros(9 - Len(groups))
    \o SubSeq(groups, g + 1, Len(groups))

Ipv6OfGroups(core, gaps, lead, trail) ==
    IF \E i \in 1..Len(core) : core[i] # <<>> /\ ~IsGroup(core[i])
    THEN Err("AddrParseError")
    ELSE IF gaps = {} /\ Len(core) = 8
    THEN Ok([v |-> 6, addr |-> [i \in 1..8 |-> DigitsValue(core[i], 16)]])
    ELSE IF /\ Cardinality(gaps) = 1
            /\ Len(core) <= 8
            /\ (core[1] = <<>> => lead)
            /\ (core[Len(core)] = <<>> => trail)
    THEN Ok([v |-> 6,
             addr |-> FillGap([i \in 1..Len(core) |-> DigitsValue(core[i], 16)],
                              CHOOSE i \in gaps : TRUE)])
    ELSE Err("AddrParseError")

Ipv6OfCore(core, lead, trail) ==
    Ipv6OfGroups(core, {i \in 1..Len(core) : core[i] = <<>>}, lead, trail)

Ipv6OfParts(parts) ==
    Ipv6OfCore(SubSeq(parts, IF LeadGap(parts) THEN 2 ELSE 1,
                      IF TrailGap(parts) THEN Len(parts) - 1 ELSE Len(parts)),
               LeadGap(parts), TrailGap(parts))

\* An IPv6 address: eight groups of hex digits, or fewer groups with one
\* "::" standing for the missing zero groups (no embedded IPv4 form).
ParseIpv6(s) == Ipv6OfParts(Split(s, ":"))

OrElse(a, b) == IF a.ok THEN a ELSE b

\* str::parse::<IpAddr>()
ParseIpAddr(s) == OrElse(ParseIpv4(s), ParseIpv6(s))

\* The prefix length after the '/': decimal digits, at most `bits`.
ParsePrefixLen(s, bits) ==
    IF s # <<>> /\ AllDec(s) /\ Len(StripZeros(s)) <= 3
       /\ DigitsValue(StripZeros(s), 10) <= bits
    THEN Ok(DigitsValue(StripZeros(s), 10))
    ELSE Err("PrefixParseError")

AddrBits(addr) == IF addr.v = 4 THEN 32 ELSE 128

PrefixOfLen(addr, plen) ==
    IF plen.ok THEN Ok([addr |-> addr, len |-> plen.val])
    ELSE Err("PrefixParseError")

PrefixOfIp(ip, parts) ==
    IF ~ip.ok \/ Len(parts) > 2 THEN Err("PrefixParseError")
    ELSE PrefixOfLen(ip.val,
                     IF Len(parts) = 2
                     THEN ParsePrefixLen(parts[2], AddrBits(ip.val))
                     ELSE Ok(AddrBits(ip.val)))

PrefixOfParts(parts) == PrefixOfIp(ParseIpAddr(parts[1]), parts)

\* str::parse::<NetworkPrefix>(): "address/length"; an address alone is a
\* host prefix (length 32 or 128).
ParseNetworkPrefix(s) == PrefixOfParts(Split(s, "/"))

(***************************************************************************)
(* ParserRisliveError: the variants parse_ris_live_message returns.        *)
(***************************************************************************)
IncorrectJson(msg_string) == [kind |-> "IncorrectJson", val |-> msg_string]

ElemUnknownOriginType(o) == [kind |-> "ElemUnknownOriginType", val |-> o]

ElemIncorrectAggregator(a) == [kind |-> "ElemIncorrectAggregator", val |-> a]

ElemIncorrectPrefix(p) == [kind |-> "ElemIncorrectPrefix", val |-> p]

ElemEndOfRibPrefix == [kind |-> "ElemEndOfRibPrefix"]

(***************************************************************************)
(* Text literals                                                           *)
(***************************************************************************)
TxtIgp == <<"i", "g", "p">>

TxtIgpUpper == <<"I", "G", "P">>

TxtEgp == <<"e", "g", "p">>

TxtEgpUpper == <<"E", "G", "P">>

TxtIncomplete == <<"i", "n", "c", "o", "m", "p", "l", "e", "t", "e">>

TxtIncompleteUpper == <<"I", "N", "C", "O", "M", "P", "L", "E", "T", "E">>

TxtEor == <<"e", "o", "r">>

(***************************************************************************)
(* parse_ris_live_message, the part before the announcements               *)
(***************************************************************************)

\* serde_json::from_str::<RisLiveMessage>: the text is JSON of the message
\* schema, where a community of an UPDATE is a pair of integers.
SerdeFromStr(w) ==
    IF /\ w.form = "json"
       /\ (w.type = "ris_message" /\ w.msg = Some("UPDATE")
             /\ w.community.some =>
              \A i \in 1..Len(w.community.val) : Len(w.community.val[i]) = 2)
    THEN Ok(w)
    ELSE Err("serde_json::Error")

\* path_to_as_path: a bare ASN is a hop of the sequence, a nested list is an
\* AS-SET segment; the order of the segments is kept.
PathToAsPath(path) ==
    [i \in 1..Len(path) |->
        IF path[i].nested THEN [segment |-> "AsSet", asns |-> path[i].asns]
        ELSE [segment |-> "AsSequence", asns |-> path[i].asns]]

\* lines 171-180: every (asn, value) pair becomes a custom community.
ParseCommunity(community) ==
    IF ~community.some THEN None
    ELSE Some([i \in 1..Len(community.val) |->
                  [asn |-> community.val[i][1], value |-> community.val[i][2]]])

\* lines 183-195: the origin token.
ParseOrigin(origin) ==
    IF ~origin.some THEN Ok(None)
    ELSE IF origin.val = TxtIgp \/ origin.val = TxtIgpUpper THEN Ok(Some("IGP"))
    ELSE IF origin.val = TxtEgp \/ origin.val = TxtEgpUpper THEN Ok(Some("EGP"))
    ELSE IF origin.val = TxtIncomplete \/ origin.val = TxtIncompleteUpper
    THEN Ok(Some("INCOMPLETE"))
    ELSE Err(ElemUnknownOriginType(origin.val))

\* lines 65-72: unwrap_or_return!(e, msg_string)
UnwrapOrReturn(e, msg_string) ==
    IF e.ok THEN e ELSE Err(IncorrectJson(msg_string))

\* lines 198-209: the aggregator text "ASN:IP".
ParseAggregator(aggregator, msg_string) ==
    IF ~aggregator.some THEN Ok([asn |-> None, ip |-> None])
    ELSE LET aggr_str == aggregator.val
             parts == Split(aggr_str, ":")
             asn == UnwrapOrReturn(ParseU32(parts[1]), msg_string)
             ip == UnwrapOrReturn(ParseIpAddr(parts[2]), msg_string)
         IN  IF Len(parts) # 2 THEN Err(ElemIncorrectAggregator(aggr_str))
             ELSE IF ~asn.ok THEN asn
             ELSE IF ~ip.ok THEN ip
             ELSE Ok([asn |-> Some(asn.val), ip |-> Some(ip.val)])

\* ParsePeer that takes 0 for a peer ASN that is no number.
ParsePeerAsnDefault(peer, peer_asn, msg_string) ==
    LET peer_ip == UnwrapOrReturn(ParseIpAddr(peer), msg_string)
        asn == ParseU32(peer_asn)
    IN  IF ~peer_ip.ok THEN peer_ip
        ELSE IF ~asn.ok THEN Ok([ip |-> peer_ip.val, asn |-> <<"0">>])
        ELSE Ok([ip |-> peer_ip.val, asn |-> asn.val])

\* lines 164-165: the peer address and the peer ASN.
ParsePeer(peer, peer_asn, msg_string) ==
    LET peer_ip == UnwrapOrReturn(ParseIpAddr(peer), msg_string)
        asn == UnwrapOrReturn(ParseU32(peer_asn), msg_string)
    IN  IF ~peer_ip.ok THEN peer_ip
        ELSE IF ~asn.ok THEN asn
        ELSE Ok([ip |-> peer_ip.val, asn |-> asn.val])

\* What the first part of the function leaves: the result, when it returns
\* there, or the values the announcement loop uses.
Returned(r) == [returned |-> TRUE, result |-> r]

Continue(a) == [returned |-> FALSE, attrs |-> a]

\* lines 143-154, 290, 293: the message is a ris_message with an UPDATE.
CarriesUpdate(w) ==
    /\ w.type = "ris_message"
    /\ w.msg.some
    /\ w.msg.val = "UPDATE"

\* ParseUpdate that looks at the aggregator before the origin.
ParseUpdateAggregatorFirst(w) ==
    LET peer == ParsePeer(w.peer, w.peer_asn, w)
        as_path == IF w.path.some THEN Some(PathToAsPath(w.path.val)) ELSE None
        communities == ParseCommunity(w.community)
        bgp_origin == ParseOrigin(w.origin)
        bgp_aggregator == ParseAggregator(w.aggregator, w)
    IN  IF ~peer.ok THEN Returned(peer)
        ELSE IF ~bgp_aggregator.ok THEN Returned(bgp_aggregator)
        ELSE IF ~bgp_origin.ok THEN Returned(bgp_origin)
        ELSE Continue([timestamp |-> w.timestamp,
                       peer_ip |-> peer.val.ip,
                       peer_asn |-> peer.val.asn,
                       as_path |-> as_path,
                       communities |-> communities,
                       origin |-> bgp_origin.val,
                       med |-> w.med,
                       aggr_asn |-> bgp_aggregator.val.asn,
                       aggr_ip |-> bgp_aggregator.val.ip])

\* lines 162-209: the UPDATE arm, up to the announcements.
ParseUpdate(w) ==
    LET peer == ParsePeer(w.peer, w.peer_asn, w)
        as_path == IF w.path.some THEN Some(PathToAsPath(w.path.val)) ELSE None
        communities == ParseCommunity(w.community)
        bgp_origin == ParseOrigin(w.origin)
        bgp_aggregator == ParseAggregator(w.aggregator, w)
    IN  IF ~peer.ok THEN Returned(peer)
        ELSE IF ~bgp_origin.ok THEN Returned(bgp_origin)
        ELSE IF ~bgp_aggregator.ok THEN Returned(bgp_aggregator)
        ELSE Continue([timestamp |-> w.timestamp,
                       peer_ip |-> peer.val.ip,
                       peer_asn |-> peer.val.asn,
                       as_path |-> as_path,
                       communities |-> communities,
                       origin |-> bgp_origin.val,
                       med |-> w.med,
                       aggr_asn |-> bgp_aggregator.val.asn,
                       aggr_ip |-> bgp_aggregator.val.ip])

\* ParseHeader that rejects the messages without an UPDATE.
ParseHeaderUpdateOnly(w) ==
    IF ~SerdeFromStr(w).ok THEN Returned(Err(IncorrectJson(w)))
    ELSE IF ~CarriesUpdate(w) THEN Returned(Err(IncorrectJson(w)))
    ELSE ParseUpdate(w)

\* lines 135-209
ParseHeader(w) ==
    IF ~SerdeFromStr(w).ok THEN Returned(Err(IncorrectJson(w)))
    ELSE IF ~CarriesUpdate(w) THEN Returned(Ok(<<>>))
    ELSE ParseUpdate(w)

(***************************************************************************)
(* parse_ris_live_message, the announcement loop                           *)
(***************************************************************************)

\* AnnounceElem that leaves the communities and the aggregator out.
AnnounceElemNoShared(attrs, p, nexthop) ==
    [timestamp |-> attrs.timestamp, elem_type |-> "ANNOUNCE",
     peer_ip |-> attrs.peer_ip, peer_asn |-> attrs.peer_asn,
     prefix |-> p, next_hop |-> Some(nexthop),
     as_path |-> attrs.as_path, origin_asns |-> None,
     origin |-> attrs.origin, local_pref |-> None,
     med |-> attrs.med, communities |-> None,
     atomic |-> None,
     aggr_asn |-> None, aggr_ip |-> None]

\* lines 232-248
AnnounceElem(attrs, p, nexthop) ==
    [timestamp |-> attrs.timestamp, elem_type |-> "ANNOUNCE",
     peer_ip |-> attrs.peer_ip, peer_asn |-> attrs.peer_asn,
     prefix |-> p, next_hop |-> Some(nexthop),
     as_path |-> attrs.as_path, origin_asns |-> None,
     origin |-> attrs.origin, local_pref |-> None,
     med |-> attrs.med, communities |-> attrs.communities,
     atomic |-> None,
     aggr_asn |-> attrs.aggr_asn, aggr_ip |-> attrs.aggr_ip]

\* WithdrawElem with the shared attributes of the message copied in.
WithdrawElemShared(attrs, p) ==
    [timestamp |-> attrs.timestamp, elem_type |-> "WITHDRAW",
     peer_ip |-> attrs.peer_ip, peer_asn |-> attrs.peer_asn,
     prefix |-> p, next_hop |-> None,
     as_path |-> attrs.as_path, origin_asns |-> None,
     origin |-> attrs.origin, local_pref |-> None,
     med |-> attrs.med, communities |-> attrs.communities,
     atomic |-> None,
     aggr_asn |-> attrs.aggr_asn, aggr_ip |-> attrs.aggr_ip]

\* lines 264-280
WithdrawElem(attrs, p) ==
    [timestamp |-> attrs.timestamp, elem_type |-> "WITHDRAW",
     peer_ip |-> attrs.peer_ip, peer_asn |-> attrs.peer_asn,
     prefix |-> p, next_hop |-> None,
     as_path |-> None, origin_asns |-> None,
     origin |-> None, local_pref |-> None,
     med |-> None, communities |-> None,
     atomic |-> None,
     aggr_asn |-> None, aggr_ip |-> None]

\* PrefixOrError without the test for "eor".
PrefixOrErrorNoEor(net, prefix) ==
    IF net.ok THEN Ok(net.val)
    ELSE Err(ElemIncorrectPrefix(prefix))

\* lines 221-229 and 254-262: a literal that is no prefix ends the call, as
\* the end of the RIB when it is "eor" and as an incorrect prefix otherwise.
PrefixOrError(net, prefix) ==
    IF net.ok THEN Ok(net.val)
    ELSE IF prefix = TxtEor THEN Err(ElemEndOfRibPrefix)
    ELSE Err(ElemIncorrectPrefix(prefix))

ParsePrefix(prefix) == PrefixOrError(ParseNetworkPrefix(prefix), prefix)

\* Abort that hands out the elements pushed so far instead of the error.
AbortKeepingElems(e, elems) == Ok(elems)

\* lines 217, 225, 227, 258, 260: `return Err(e)` ends the call, and the
\* elements pushed so far go with the local vector.
Abort(e, elems) == Err(e)

\* lines 220-250: for prefix in &announcement.prefixes, from position i; p is
\* the outcome of parsing the prefix at i.
RECURSIVE AnnounceLoop(_, _, _, _, _)
AnnounceNext(p, prefixes, i, attrs, nexthop, elems) ==
    IF ~p.ok THEN Abort(p.err, elems)
    ELSE AnnounceLoop(prefixes, i + 1, attrs, nexthop,
                      Append(elems, AnnounceElem(attrs, p.val, nexthop)))

AnnounceLoop(prefixes, i, attrs, nexthop, elems) ==
    IF i > Len(prefixes) THEN Ok(elems)
    ELSE AnnounceNext(ParsePrefix(prefixes[i]), prefixes, i, attrs, nexthop,
                      elems)

\* lines 253-283: for prefix in prefixes (the withdrawals), from position i.
RECURSIVE WithdrawLoop(_, _, _, _)
WithdrawNext(p, prefixes, i, attrs, elems) ==
    IF ~p.ok THEN Abort(p.err, elems)
    ELSE WithdrawLoop(prefixes, i + 1, attrs,
                      Append(elems, WithdrawElem(attrs, p.val)))

WithdrawLoop(prefixes, i, attrs, elems) ==
    IF i > Len(prefixes) THEN Ok(elems)
    ELSE WithdrawNext(ParsePrefix(prefixes[i]), prefixes, i, attrs, elems)

\* lines 252-284: the withdrawals follow the prefixes of the block.
ThenWithdrawals(announced, withdrawals, attrs) ==
    IF ~announced.ok THEN announced
    ELSE IF ~withdrawals.some THEN announced
    ELSE WithdrawLoop(withdrawals.val, 1, attrs, announced.val)

\* AnnounceWith that skips a block whose next hop is no address.
AnnounceWithSkipBadHop(nexthop, prefixes, attrs, msg_string, elems) ==
    IF ~nexthop.ok THEN Ok(elems)
    ELSE AnnounceLoop(prefixes, 1, attrs, nexthop.val, elems)

\* lines 214-250: the next hop, then the prefixes of the block.
AnnounceWith(nexthop, prefixes, attrs, msg_string, elems) ==
    IF ~nexthop.ok THEN Abort(IncorrectJson(msg_string), elems)
    ELSE AnnounceLoop(prefixes, 1, attrs, nexthop.val, elems)

\* ThenWithdrawals and AnnounceWith for a block whose withdrawals are
\* expanded before its prefixes.
WithdrawalsFirst(withdrawals, attrs, elems) ==
    IF withdrawals.some THEN WithdrawLoop(withdrawals.val, 1, attrs, elems)
    ELSE Ok(elems)

ThenAnnounce(withdrawn, nexthop, prefixes, attrs, msg_string) ==
    IF ~nexthop.ok THEN Err(IncorrectJson(msg_string))
    ELSE IF ~withdrawn.ok THEN withdrawn
    ELSE AnnounceLoop(prefixes, 1, attrs, nexthop.val, withdrawn.val)

\* ParseAnnouncement with the withdrawals expanded before the prefixes.
ParseAnnouncementWithdrawFirst(announcement, attrs, msg_string, elems) ==
    ThenAnnounce(WithdrawalsFirst(announcement.withdrawals, attrs, elems),
                 ParseIpAddr(announcement.next_hop), announcement.prefixes,
                 attrs, msg_string)

\* lines 213-285: one iteration of `for announcement in announcements`.
ParseAnnouncement(announcement, attrs, msg_string, elems) ==
    ThenWithdrawals(
        AnnounceWith(ParseIpAddr(announcement.next_hop), announcement.prefixes,
                     attrs, msg_string, elems),
        announcement.withdrawals, attrs)

(***************************************************************************)
(* Bounds and the texts the messages are built from                        *)
(***************************************************************************)
\* The number of announcement blocks of a message.
MaxBlocks == 2

\* The number of literals of a block, prefixes and withdrawals together.
MaxLiterals == 2

TxtPeer == <<"3", "7", ".", "4", "9", ".", "2", "3", "6", ".", "1">>

TxtBadIp == <<"1", ".", "2", ".", "3">>

TxtPeerAsn == <<"8", "2", "1", "8">>

TxtNotANumber == <<"x", "1">>

TxtAsnOverflow == <<"4", "2", "9", "4", "9", "6", "7", "2", "9", "6">>

TxtHopA == <<"2", "0", "0", "1", ":", "7", "f", "8", ":", "2", "4", ":", ":", "8", "2">>

TxtHopB == <<"3", "7", ".", "4", "9", ".", "2", "3", "7", ".", "1", "7", "5">>

TxtHopC == <<"f", "e", "8", "0", ":", ":", "1">>

TxtPrefixA == <<"1", ".", "1", ".", "1", ".", "0", "/", "2", "4">>

TxtPrefixB == <<"8", ".", "8", ".", "8", ".", "0", "/", "2", "4">>

TxtPrefixC == <<"2", "6", "0", "2", ":", "f", "d", "9", "e", ":", ":", "/", "4", "0">>

TxtBadPrefix == <<"1", ".", "1", ".", "1", ".", "0", "/", "3", "3">>

TxtAggr == <<"6", "5", "0", "0", "0", ":", "8", ".", "4", "2", ".", "2", "3", "2", ".", "1">>

TxtAggrGarbage == <<"g", "a", "r", "b", "a", "g", "e">>

TxtAggrBadAsn ==
    TxtAsnOverflow \o <<":", "8", ".", "4", "2", ".", "2", "3", "2", ".", "1">>

TxtAggrBadIp == <<"6", "5", "0", "0", "0", ":", "8", ".", "4", "2">>

TxtAggrV6 == <<"6", "5", "0", "0", "0", ":", "2", "0", "0", "1", ":", ":", "1">>

TxtIgpMixed == <<"I", "g", "p">>

TxtIncompleteMixed == <<"I", "n", "c", "o", "m", "p", "l", "e", "t", "e">>

TxtBogus == <<"b", "o", "g", "u", "s">>

LowerLetters == <<"a", "b", "c", "d", "e", "f", "g", "h", "i", "j", "k", "l", "m",
                  "n", "o", "p", "q", "r", "s", "t", "u", "v", "w", "x", "y", "z">>

UpperLetters == <<"A", "B", "C", "D", "E", "F", "G", "H", "I", "J", "K", "L", "M",
                  "N", "O", "P", "Q", "R", "S", "T", "U", "V", "W", "X", "Y", "Z">>

\* str::to_lowercase on ASCII texts
ToLower(s) ==
    [i \in 1..Len(s) |->
        IF \E k \in 1..26 : UpperLetters[k] = s[i]
        THEN LowerLetters[CHOOSE k \in 1..26 : UpperLetters[k] = s[i]]
        ELSE s[i]]

PeerTexts == {TxtPeer, TxtBadIp}

PeerAsnTexts == {TxtPeerAsn, TxtNotANumber}

OriginTexts ==
    {TxtIgp, TxtIgpUpper, TxtIgpMixed, TxtEgp, TxtEgpUpper,
     TxtIncomplete, TxtIncompleteUpper, TxtIncompleteMixed, TxtBogus}

AggregatorTexts ==
    {TxtAggr, TxtAggrGarbage, TxtAggrBadAsn, TxtAggrBadIp, TxtAggrV6}

\* data.path: a hop is a bare ASN, or a nested list of ASNs.
Hop(asn) == [nested |-> FALSE, asns |-> <<asn>>]

HopSet(asns) == [nested |-> TRUE, asns |-> asns]

PathValues == {<<Hop(58299), HopSet(<<49981, 397666>>)>>}

\* data.community: a list of tuples of integers.
CommunityValues ==
    {<<<<3356, 100>>, <<1299, 20>>>>, <<<<3356, 100>>, <<1299, 20, 3>>>>}

MedValues == {50}

TimestampValue == 1636247118

Opt(S) == {None} \cup {Some(x) : x \in S}

\* The texts a socket read returns (Message::to_string()).
EmptyText == [form |-> "empty"]

NotJsonText == [form |-> "garbage"]

\* {"type": t, ...} for the kinds that are not ris_message
OtherKindTexts ==
    {[form |-> "json", type |-> t] :
        t \in {"ris_error", "ris_rrc_list", "ris_subscribe_ok", "pong"}}

\* {"type": "ris_message", "data": {...}} without a BGP message, or with a BGP
\* message that is no UPDATE
NoUpdateTexts ==
    {[form |-> "json", type |-> "ris_message", timestamp |-> TimestampValue,
      peer |-> p, peer_asn |-> a, msg |-> m] :
        p \in PeerTexts, a \in PeerAsnTexts,
        m \in Opt({"OPEN", "NOTIFICATION", "KEEPALIVE", "RIS_PEER_STATE"})}

\* {"type": "ris_message", "data": {..., "type": "UPDATE", ...}}; the
\* announcement blocks are drawn when the loop reaches them.
UpdateTexts ==
    {[form |-> "json", type |-> "ris_message", timestamp |-> TimestampValue,
      peer |-> p, peer_asn |-> a, msg |-> Some("UPDATE"),
      path |-> pa, community |-> c, origin |-> o, med |-> me,
      aggregator |-> ag, announcements |-> an] :
        p \in PeerTexts, a \in PeerAsnTexts,
        pa \in Opt(PathValues), c \in Opt(CommunityValues),
        o \in Opt(OriginTexts), me \in Opt(MedValues),
        ag \in Opt(AggregatorTexts), an \in {None, Some(<<>>)}}

WireTexts ==
    {EmptyText, NotJsonText} \cup OtherKindTexts \cup NoUpdateTexts
    \cup UpdateTexts

\* The next hop and the prefixes of the k-th block and of the i-th position
\* of a list differ, so that an element shows the place it comes from.
HopTexts == <<TxtHopA, TxtHopB, TxtHopC>>

PrefixTexts == <<TxtPrefixA, TxtPrefixB, TxtPrefixC>>

HopText(k) == HopTexts[((k - 1) % Len(HopTexts)) + 1]

PrefixText(i) == PrefixTexts[((i - 1) % Len(PrefixTexts)) + 1]

\* The lists of n literals: a prefix, "eor" or a malformed prefix at every
\* position.
LiteralLists(n) ==
    {[i \in 1..n |-> IF f[i] = "prefix" THEN PrefixText(i)
                     ELSE IF f[i] = "eor" THEN TxtEor
                     ELSE TxtBadPrefix] :
        f \in [1..n -> {"prefix", "eor", "bad"}]}

\* The blocks in the k-th place of a message, of at most n literals.  A block
\* whose next hop is no address is left at line 217 before a literal of it is
\* read, so two lists stand for all of them.
Blocks(k, n) ==
    UNION {{[next_hop |-> HopText(k), prefixes |-> ps, withdrawals |-> ws] :
               ps \in LiteralLists(a),
               ws \in {None} \cup UNION {{Some(l) : l \in LiteralLists(b)} :
                                            b \in 0..(n - a)}} :
           a \in 0..n}
    \cup {[next_hop |-> TxtBadIp, prefixes |-> ps, withdrawals |-> None] :
             ps \in {<<PrefixText(1)>>, <<TxtEor>>}}

\* A block that decodes and three that do not.
ProbeBlocks(k) ==
    {[next_hop |-> HopText(k), prefixes |-> <<PrefixText(1)>>,
      withdrawals |-> Some(<<PrefixText(2)>>)],
     [next_hop |-> TxtBadIp, prefixes |-> <<PrefixText(1)>>,
      withdrawals |-> None],
     [next_hop |-> HopText(k), prefixes |-> <<TxtEor>>, withdrawals |-> None],
     [next_hop |-> HopText(k), prefixes |-> <<PrefixText(1)>>,
      withdrawals |-> Some(<<TxtBadPrefix>>)]}

\* The messages with the attributes of FullUpdate have every block up to the
\* bound; the others have the blocks of ProbeBlocks.
FullUpdate(w) ==
    /\ w.path.some /\ w.med.some
    /\ w.community = Some(<<<<3356, 100>>, <<1299, 20>>>>)
    /\ w.origin = Some(TxtIgp) /\ w.aggregator = Some(TxtAggr)

BlocksOf(w, k) ==
    IF FullUpdate(w) THEN Blocks(k, MaxLiterals) ELSE ProbeBlocks(k)

(***************************************************************************)
(* The reader: loop { read; parse; print }                                 *)
(***************************************************************************)
VARIABLES
    opts,       \* the command line options
    pc,         \* where the reader is
    msg,        \* the text of the message read last
    attrs,      \* parse_ris_live_message: the values shared by the elements
    elems,      \* parse_ris_live_message: the local vector of elements
    result,     \* what parse_ris_live_message returned
    printed     \* what the reader printed for the message read last

vars == <<opts, pc, msg, attrs, elems, result, printed>>

\* --raw, and --update-type with a word for announcements, one for
\* withdrawals and one for neither; the output format is left out.
UpdateTypeTexts == {<<"a">>, <<"W">>, <<"x">>}

Options ==
    {[raw |-> TRUE, update_type |-> None]}
    \cup {[raw |-> FALSE, update_type |-> u] : u \in Opt(UpdateTypeTexts)}

\* reader/main.rs 108-128: the element passes the --update-type filter.
Selected(e, update_type) ==
    \/ ~update_type.some
    \/ ToLower(update_type.val)[1] = "a" /\ e.elem_type = "ANNOUNCE"
    \/ ToLower(update_type.val)[1] = "w" /\ e.elem_type = "WITHDRAW"

\* reader/main.rs 109, 124-126: the filter panics on a word that begins
\* with neither letter, when it meets an element.
FilterPanics(es, update_type) ==
    /\ es # <<>>
    /\ update_type.some
    /\ \/ update_type.val = <<>>
       \/ ToLower(update_type.val)[1] \notin {"a", "w"}

Init ==
    /\ opts \in Options
    /\ pc = "read"
    /\ msg = None
    /\ attrs = None
    /\ elems = <<>>
    /\ result = None
    /\ printed = <<>>

\* reader/main.rs 97-100: an empty text is skipped.
ReadEmpty ==
    /\ pc = "read"
    /\ msg' = Some(EmptyText)
    /\ UNCHANGED <<opts, pc, attrs, elems, result, printed>>

\* reader/main.rs 101-104: with --raw the text is printed as it is.
ReadRaw ==
    /\ pc = "read"
    /\ opts.raw
    /\ \E w \in WireTexts \ {EmptyText} :
          /\ msg' = Some(w)
          /\ printed' = <<w>>
    /\ pc' = "printed"
    /\ UNCHANGED <<opts, attrs, elems, result>>

\* reader/main.rs 97-105: the text goes to parse_ris_live_message.
ReadMessage ==
    /\ pc = "read"
    /\ ~opts.raw
    /\ \E w \in WireTexts \ {EmptyText} : msg' = Some(w)
    /\ pc' = "parse"
    /\ UNCHANGED <<opts, attrs, elems, result, printed>>

\* lib.rs 135-209: the message is decoded and the shared values are parsed.
BeginParse ==
    /\ pc = "parse"
    /\ \E h \in {ParseHeader(msg.val)} :
           IF h.returned
           THEN /\ result' = Some(h.result)
                /\ pc' = "returned"
                /\ UNCHANGED attrs
           ELSE /\ attrs' = Some(h.attrs)
                /\ pc' = "announcements"
                /\ UNCHANGED result
    /\ UNCHANGED <<opts, msg, elems, printed>>

\* lib.rs 213-285: the loop takes the next announcement block.
NextAnnouncement ==
    /\ pc = "announcements"
    /\ msg.val.announcements.some
    /\ Len(msg.val.announcements.val) < MaxBlocks
    /\ \E b \in BlocksOf(msg.val, Len(msg.val.announcements.val) + 1) :
          \E r \in {ParseAnnouncement(
                        b, attrs.val,
                        [msg.val EXCEPT !.announcements.val = Append(@, b)],
                        elems)} :
              /\ msg' = Some([msg.val EXCEPT !.announcements.val = Append(@, b)])
              /\ IF r.ok
                 THEN /\ elems' = r.val
                      /\ UNCHANGED <<pc, result>>
                 ELSE /\ result' = Some(r)
                      /\ pc' = "returned"
                      /\ UNCHANGED elems
    /\ UNCHANGED <<opts, attrs, printed>>

\* lib.rs 212, 286-288: no block is left, or the message has no announcements.
EndAnnouncements ==
    /\ pc = "announcements"
    /\ result' = Some(Ok(elems))
    /\ pc' = "returned"
    /\ UNCHANGED <<opts, msg, attrs, elems, printed>>

\* reader/main.rs 106-140: the elements are printed.
HandleElems ==
    /\ pc = "returned"
    /\ result.val.ok
    /\ IF FilterPanics(result.val.val, opts.update_type)
       THEN /\ pc' = "panicked"
            /\ UNCHANGED printed
       ELSE /\ pc' = "printed"
            /\ LET Keep(e) == Selected(e, opts.update_type)
               IN  printed' = SelectSeq(result.val.val, Keep)
    /\ UNCHANGED <<opts, msg, attrs, elems, result>>

\* reader/main.rs 141-146: the end of the RIB is printed with the message.
HandleEndOfRib ==
    /\ pc = "returned"
    /\ ~result.val.ok
    /\ result.val.err.kind = "ElemEndOfRibPrefix"
    /\ printed' = <<result.val.err, msg.val>>
    /\ pc' = "printed"
    /\ UNCHANGED <<opts, msg, attrs, elems, result>>

\* reader/main.rs 147: any other error leaves the loop.
HandleError ==
    /\ pc = "returned"
    /\ ~result.val.ok
    /\ result.val.err.kind # "ElemEndOfRibPrefix"
    /\ pc' = "exited"
    /\ UNCHANGED <<opts, msg, attrs, elems, result, printed>>

\* reader/main.rs 96, 150: the loop body is over and the next read begins.
NextIteration ==
    /\ pc = "printed"
    /\ pc' = "read"
    /\ msg' = None
    /\ attrs' = None
    /\ elems' = <<>>
    /\ result' = None
    /\ printed' = <<>>
    /\ UNCHANGED opts

Next ==
    \/ ReadEmpty
    \/ ReadRaw
    \/ ReadMessage
    \/ BeginParse
    \/ NextAnnouncement
    \/ EndAnnouncements
    \/ HandleElems
    \/ HandleEndOfRib
    \/ HandleError
    \/ NextIteration

Spec == Init /\ [][Next]_vars

(***************************************************************************)
(* Properties                                                              *)
(***************************************************************************)

\* parse_ris_live_message has returned for the message read last.
HasReturned == result.some

\* The text is a ris_message whose BGP message is an UPDATE.
IsUpdate(w) ==
    /\ w.form = "json"
    /\ w.type = "ris_message"
    /\ w.msg = Some("UPDATE")

\* The announcement blocks of an UPDATE.
BlocksIn(w) == IF w.announcements.some THEN w.announcements.val ELSE <<>>

WithdrawalsIn(b) == IF b.withdrawals.some THEN b.withdrawals.val ELSE <<>>

IsPrefix(text) == ParseNetworkPrefix(text).ok

\* The kind, the prefix and the next hop of every element, in order.
ShapeOf(es) ==
    [i \in 1..Len(es) |->
        [elem_type |-> es[i].elem_type, prefix |-> es[i].prefix,
         next_hop |-> es[i].next_hop]]

\* One Announce per prefix of the block, then one Withdraw per withdrawal.
ShapeOfBlock(b) ==
    [i \in 1..Len(b.prefixes) |->
        [elem_type |-> "ANNOUNCE",
         prefix |-> ParseNetworkPrefix(b.prefixes[i]).val,
         next_hop |-> Some(ParseIpAddr(b.next_hop).val)]]
    \o [i \in 1..Len(WithdrawalsIn(b)) |->
        [elem_type |-> "WITHDRAW",
         prefix |-> ParseNetworkPrefix(WithdrawalsIn(b)[i]).val,
         next_hop |-> None]]

RECURSIVE ShapeOfBlocks(_)
ShapeOfBlocks(blocks) ==
    IF blocks = <<>> THEN <<>>
    ELSE ShapeOfBlocks(SubSeq(blocks, 1, Len(blocks) - 1))
         \o ShapeOfBlock(blocks[Len(blocks)])

RECURSIVE CountLiterals(_)
CountLiterals(blocks) ==
    IF blocks = <<>> THEN 0
    ELSE CountLiterals(Tail(blocks)) + Len(blocks[1].prefixes)
         + Len(WithdrawalsIn(blocks[1]))

\* C1: an UPDATE that decodes yields, block after block in the order of the
\* message, one Announce per prefix of the block in the order of the prefixes
\* and then one Withdraw per withdrawal in the order of the withdrawals; the
\* number of elements is the number of prefixes plus that of withdrawals.
C1_EmissionOrder ==
    (HasReturned /\ result.val.ok /\ IsUpdate(msg.val)) =>
        /\ ShapeOf(result.val.val) = ShapeOfBlocks(BlocksIn(msg.val))
        /\ Len(result.val.val) = CountLiterals(BlocksIn(msg.val))

\* Two blocks are decoded, the first with two prefixes and the second with a
\* prefix and a withdrawal.
C1_Witness ==
    /\ HasReturned /\ result.val.ok /\ IsUpdate(msg.val)
    /\ Len(BlocksIn(msg.val)) = 2
    /\ Len(BlocksIn(msg.val)[1].prefixes) = 2
    /\ Len(BlocksIn(msg.val)[2].prefixes) = 1
    /\ Len(WithdrawalsIn(BlocksIn(msg.val)[2])) = 1
    /\ Len(result.val.val) = 4

\* A check of the decoder fails on the text: it is no JSON of the schema, or
\* it is an UPDATE whose peer, peer ASN, origin or aggregator is rejected, or
\* one of whose blocks has a next hop that is no address or a literal that is
\* no prefix.
SchemaFault(w) == ~SerdeFromStr(w).ok

HeaderFault(w) ==
    \/ ~ParseIpAddr(w.peer).ok
    \/ ~ParseU32(w.peer_asn).ok
    \/ ~ParseOrigin(w.origin).ok
    \/ ~ParseAggregator(w.aggregator, w).ok

BlockFault(b) ==
    \/ ~ParseIpAddr(b.next_hop).ok
    \/ \E i \in 1..Len(b.prefixes) : ~IsPrefix(b.prefixes[i])
    \/ \E i \in 1..Len(WithdrawalsIn(b)) : ~IsPrefix(WithdrawalsIn(b)[i])

Faulty(w) ==
    \/ SchemaFault(w)
    \/ /\ IsUpdate(w)
       /\ \/ HeaderFault(w)
          \/ \E k \in 1..Len(BlocksIn(w)) : BlockFault(BlocksIn(w)[k])

IsElem(x) == "elem_type" \in DOMAIN x

\* C2: when a check fails, at the first block or after elements of earlier
\* blocks were built, the call returns the failure and no element, and the
\* reader prints no element: a call that returns elements has met no failing
\* check, and a call that fails returns the error alone.
C2_AllOrNothing ==
    HasReturned =>
        IF result.val.ok THEN ~Faulty(msg.val)
        ELSE /\ DOMAIN result.val = {"ok", "err"}
             /\ \A i \in 1..Len(printed) : ~IsElem(printed[i])

\* The failure is a withdrawal of the second block; the first block has put
\* elements in the vector.
C2_Witness ==
    /\ HasReturned /\ ~result.val.ok
    /\ IsUpdate(msg.val)
    /\ Len(BlocksIn(msg.val)) = 2
    /\ elems # <<>>
    /\ ~BlockFault(BlocksIn(msg.val)[1])
    /\ Len(BlocksIn(msg.val)[2].prefixes) >= 1
    /\ \A i \in 1..Len(BlocksIn(msg.val)[2].prefixes) :
          IsPrefix(BlocksIn(msg.val)[2].prefixes[i])
    /\ \E i \in 1..Len(WithdrawalsIn(BlocksIn(msg.val)[2])) :
          ~IsPrefix(WithdrawalsIn(BlocksIn(msg.val)[2])[i])

\* C3: a Withdraw element has no next hop, AS path, origin, MED, communities
\* or aggregator, whatever the message carries.
C3_WithdrawBare ==
    (HasReturned /\ result.val.ok) =>
        \A i \in 1..Len(result.val.val) :
            LET e == result.val.val[i]
            IN  e.elem_type = "WITHDRAW" =>
                   /\ e.next_hop = None /\ e.as_path = None
                   /\ e.origin = None /\ e.med = None
                   /\ e.communities = None
                   /\ e.aggr_asn = None /\ e.aggr_ip = None

\* A message with a path, an origin, a MED, communities and an aggregator
\* yields a Withdraw element.
C3_Witness ==
    /\ HasReturned /\ result.val.ok /\ IsUpdate(msg.val)
    /\ msg.val.path.some /\ msg.val.origin.some /\ msg.val.med.some
    /\ msg.val.community.some /\ msg.val.aggregator.some
    /\ \E i \in 1..Len(result.val.val) :
          result.val.val[i].elem_type = "WITHDRAW"

\* C8: a text that is JSON of the schema and is no ris_message, or carries no
\* BGP message, or one that is no UPDATE, decodes to the empty list, whatever
\* its other fields hold.
C8_NonUpdateEmpty ==
    (HasReturned /\ msg.val.form = "json" /\ ~IsUpdate(msg.val)) =>
        result.val = Ok(<<>>)

\* A KEEPALIVE whose peer is no address and whose peer ASN is no number has
\* been decoded.
C8_Witness ==
    /\ HasReturned
    /\ msg.val.form = "json" /\ msg.val.type = "ris_message"
    /\ msg.val.msg = Some("KEEPALIVE")
    /\ ~ParseIpAddr(msg.val.peer).ok /\ ~ParseU32(msg.val.peer_asn).ok
    /\ result.val.ok

\* The block the loop took last has a next hop that is no address.
BadHopReached(w) ==
    /\ IsUpdate(w)
    /\ BlocksIn(w) # <<>>
    /\ ~ParseIpAddr(BlocksIn(w)[Len(BlocksIn(w))].next_hop).ok

\* C10: when the loop reaches a block whose next hop is no address, the call
\* returns IncorrectJson with the text of the message and no element, also
\* after earlier blocks were expanded.
C10_BadNextHop ==
    (HasReturned /\ BadHopReached(msg.val)) =>
        /\ ~result.val.ok
        /\ result.val.err.kind = "IncorrectJson"
        /\ result.val.err.val = msg.val
        /\ \A i \in 1..Len(printed) : ~IsElem(printed[i])

\* The second block has the bad next hop and the first block was expanded.
C10_Witness ==
    /\ HasReturned /\ BadHopReached(msg.val)
    /\ Len(BlocksIn(msg.val)) = 2
    /\ elems # <<>>
    /\ ~result.val.ok

\* The prefixes of a block and then its withdrawals, the order the loop
\* reads them in.
Literals(b) == b.prefixes \o WithdrawalsIn(b)

HasEor(w) ==
    \E k \in 1..Len(BlocksIn(w)) :
        \E j \in 1..Len(Literals(BlocksIn(w)[k])) :
            Literals(BlocksIn(w)[k])[j] = TxtEor

\* A literal of the block is "eor" with prefixes only before it, and the next
\* hop of the block is an address.
EorFirstIn(b) ==
    /\ \E j \in 1..Len(Literals(b)) :
          /\ Literals(b)[j] = TxtEor
          /\ \A i \in 1..(j - 1) : IsPrefix(Literals(b)[i])
    /\ ParseIpAddr(b.next_hop).ok

\* No check fails before an "eor" literal of the message.
EorFirst(w) ==
    /\ \E k \in 1..Len(BlocksIn(w)) :
          /\ EorFirstIn(BlocksIn(w)[k])
          /\ \A m \in 1..(k - 1) : ~BlockFault(BlocksIn(w)[m])
    /\ ~SchemaFault(w)
    /\ ~HeaderFault(w)

IsEndOfRib(r) == ~r.ok /\ r.err.kind = "ElemEndOfRibPrefix"

\* C4, as stated: an UPDATE with an "eor" literal among the prefixes or the
\* withdrawals of a block, at any position, yields ElemEndOfRibPrefix.
C4_EorAnywhere ==
    (HasReturned /\ IsUpdate(msg.val) /\ HasEor(msg.val)) =>
        IsEndOfRib(result.val)

\* C4: an UPDATE in which no check fails before an "eor" literal (the header
\* fields, the earlier blocks, the next hop of its block and the literals
\* before it are accepted) yields ElemEndOfRibPrefix, and no element is
\* printed.
C4_EorFirst ==
    (HasReturned /\ IsUpdate(msg.val) /\ EorFirst(msg.val)) =>
        /\ IsEndOfRib(result.val)
        /\ \A i \in 1..Len(printed) : ~IsElem(printed[i])

\* The "eor" is the first withdrawal of the second block; the first block and
\* the prefixes of the second have put elements in the vector.
C4_Witness ==
    /\ HasReturned /\ IsUpdate(msg.val)
    /\ Len(BlocksIn(msg.val)) = 2
    /\ ~BlockFault(BlocksIn(msg.val)[1])
    /\ Len(BlocksIn(msg.val)[2].prefixes) >= 1
    /\ \A i \in 1..Len(BlocksIn(msg.val)[2].prefixes) :
          IsPrefix(BlocksIn(msg.val)[2].prefixes[i])
    /\ WithdrawalsIn(BlocksIn(msg.val)[2]) # <<>>
    /\ WithdrawalsIn(BlocksIn(msg.val)[2])[1] = TxtEor
    /\ Len(elems) >= 2
    /\ IsEndOfRib(result.val)

\* The peer of the message is no address or its peer ASN is no u32.
BadPeer(w) == ~ParseIpAddr(w.peer).ok \/ ~ParseU32(w.peer_asn).ok

IsIncorrectJson(r, text) ==
    /\ ~r.ok
    /\ r.err.kind = "IncorrectJson"
    /\ r.err.val = text

\* C5, as stated: any message whose peer is no address or whose peer ASN is
\* no u32 yields IncorrectJson with the text of the message.
C5_BadPeerAnyMessage ==
    (HasReturned /\ msg.val.form = "json" /\ msg.val.type = "ris_message"
        /\ BadPeer(msg.val)) =>
        IsIncorrectJson(result.val, msg.val)

\* C5: an UPDATE whose peer is no address or whose peer ASN is no u32 yields
\* IncorrectJson with the text of the message, and no element is printed.
C5_BadPeerUpdate ==
    (HasReturned /\ IsUpdate(msg.val) /\ BadPeer(msg.val)) =>
        /\ IsIncorrectJson(result.val, msg.val)
        /\ \A i \in 1..Len(printed) : ~IsElem(printed[i])

\* The peer is an address, the peer ASN is no number, and every other field
\* of the UPDATE is accepted.
C5_Witness ==
    /\ HasReturned /\ IsUpdate(msg.val)
    /\ ~SchemaFault(msg.val)
    /\ ParseIpAddr(msg.val.peer).ok /\ ~ParseU32(msg.val.peer_asn).ok
    /\ ParseOrigin(msg.val.origin).ok
    /\ ParseAggregator(msg.val.aggregator, msg.val).ok
    /\ ~result.val.ok

\* The origin a token stands for when its casing is set aside.
OriginAnyCase(token) ==
    IF ToLower(token) = TxtIgp THEN Some("IGP")
    ELSE IF ToLower(token) = TxtEgp THEN Some("EGP")
    ELSE IF ToLower(token) = TxtIncomplete THEN Some("INCOMPLETE")
    ELSE None

\* The checks before the origin token accept the message.
ReachesOrigin(w) ==
    /\ IsUpdate(w) /\ ~SchemaFault(w) /\ ~BadPeer(w)
    /\ w.origin.some

IsUnknownOrigin(r) == ~r.ok /\ r.err.kind = "ElemUnknownOriginType"

\* C6: the origin token is matched against igp, egp and incomplete whatever
\* its casing: a token that is one of the three words in any casing is no
\* error and every Announce element carries the origin it names; any other
\* token yields ElemUnknownOriginType with the token.
C6_OriginAnyCase ==
    (HasReturned /\ ReachesOrigin(msg.val)) =>
        IF OriginAnyCase(msg.val.origin.val).some
        THEN /\ ~IsUnknownOrigin(result.val)
             /\ result.val.ok =>
                   \A i \in 1..Len(result.val.val) :
                       result.val.val[i].elem_type = "ANNOUNCE" =>
                           result.val.val[i].origin
                               = OriginAnyCase(msg.val.origin.val)
        ELSE /\ IsUnknownOrigin(result.val)
             /\ result.val.err.val = msg.val.origin.val

\* The aggregator text has two parts, an ASN and an address.
AggregatorWellFormed(a) ==
    /\ Len(Split(a, ":")) = 2
    /\ ParseU32(Split(a, ":")[1]).ok
    /\ ParseIpAddr(Split(a, ":")[2]).ok

\* The checks before the aggregator accept the message.
ReachesAggregator(w) ==
    /\ IsUpdate(w) /\ ~SchemaFault(w) /\ ~BadPeer(w)
    /\ ParseOrigin(w.origin).ok

IsIncorrectAggregator(r) == ~r.ok /\ r.err.kind = "ElemIncorrectAggregator"

\* C7: an aggregator "ASN:IP" of two parts that parse is carried, ASN and
\* address, by every Announce element; an aggregator of any other shape, a
\* wrong number of parts or a part that does not parse, yields
\* ElemIncorrectAggregator with the raw text; without an aggregator no
\* element has aggregator fields and no aggregator error arises.
C7_Aggregator ==
    (HasReturned /\ ReachesAggregator(msg.val)) =>
        IF ~msg.val.aggregator.some
        THEN /\ ~IsIncorrectAggregator(result.val)
             /\ result.val.ok =>
                   \A i \in 1..Len(result.val.val) :
                       /\ result.val.val[i].aggr_asn = None
                       /\ result.val.val[i].aggr_ip = None
        ELSE IF AggregatorWellFormed(msg.val.aggregator.val)
        THEN /\ ~IsIncorrectAggregator(result.val)
             /\ result.val.ok =>
                   \A i \in 1..Len(result.val.val) :
                       result.val.val[i].elem_type = "ANNOUNCE" =>
                           /\ result.val.val[i].aggr_asn = Some(ParseU32(
                                  Split(msg.val.aggregator.val, ":")[1]).val)
                           /\ result.val.val[i].aggr_ip = Some(ParseIpAddr(
                                  Split(msg.val.aggregator.val, ":")[2]).val)
        ELSE /\ IsIncorrectAggregator(result.val)
             /\ result.val.err.val = msg.val.aggregator.val

\* A tuple of the community list has not two integers.
WrongArity(community) ==
    \E i \in 1..Len(community) : Len(community[i]) # 2

\* ElemUnknownOriginType, ElemIncorrectAggregator, ElemIncorrectPrefix: the
\* errors about the content of a field.
IsSemanticError(r) ==
    /\ ~r.ok
    /\ r.err.kind \in {"ElemUnknownOriginType", "ElemIncorrectAggregator",
                       "ElemIncorrectPrefix"}

\* C9: an UPDATE with a community tuple that has not two integers, and no
\* fault in its peer, origin and aggregator, yields an error about the
\* content of a field and not IncorrectJson; when every tuple
\* has two integers, every Announce element carries the pairs (asn, value) in
\* the order of the list.
C9_Community ==
    (HasReturned /\ IsUpdate(msg.val) /\ msg.val.community.some) =>
        IF WrongArity(msg.val.community.val)
        THEN (~BadPeer(msg.val) /\ ParseOrigin(msg.val.origin).ok
                 /\ ParseAggregator(msg.val.aggregator, msg.val).ok) =>
                IsSemanticError(result.val)
        ELSE result.val.ok =>
                \A i \in 1..Len(result.val.val) :
                    result.val.val[i].elem_type = "ANNOUNCE" =>
                        /\ result.val.val[i].communities.some
                        /\ result.val.val[i].communities.val
                             = [k \in 1..Len(msg.val.community.val) |->
                                   [asn |-> msg.val.community.val[k][1],
                                    value |-> msg.val.community.val[k][2]]]

\* parse_ris_live_message has just returned: the reader holds the result and
\* has not handled it yet.
AtReturn == pc = "returned" /\ result.some

\* The fields of an element other than its prefix and its next hop.
SharedOf(e) ==
    [timestamp |-> e.timestamp, elem_type |-> e.elem_type,
     peer_ip |-> e.peer_ip, peer_asn |-> e.peer_asn,
     as_path |-> e.as_path, origin_asns |-> e.origin_asns,
     origin |-> e.origin, local_pref |-> e.local_pref,
     med |-> e.med, communities |-> e.communities,
     atomic |-> e.atomic, aggr_asn |-> e.aggr_asn, aggr_ip |-> e.aggr_ip]

\* What the fields of the message give an Announce element.
SharedIn(w) ==
    [timestamp |-> w.timestamp, elem_type |-> "ANNOUNCE",
     peer_ip |-> ParseIpAddr(w.peer).val,
     peer_asn |-> ParseU32(w.peer_asn).val,
     as_path |-> IF w.path.some THEN Some(PathToAsPath(w.path.val)) ELSE None,
     origin_asns |-> None,
     origin |-> ParseOrigin(w.origin).val,
     local_pref |-> None,
     med |-> w.med,
     communities |-> ParseCommunity(w.community),
     atomic |-> None,
     aggr_asn |-> ParseAggregator(w.aggregator, w).val.asn,
     aggr_ip |-> ParseAggregator(w.aggregator, w).val.ip]

IsAnnounce(e) == e.elem_type = "ANNOUNCE"

\* C11: in a decoded UPDATE every Announce element has the next hop of its
\* own block, and the timestamp, the peer, the peer ASN, the AS path, the
\* origin, the MED, the communities and the aggregator of the message; two
\* Announce elements of a message differ in their prefix and next hop only.
C11_SharedAttributes ==
    (AtReturn /\ result.val.ok /\ IsUpdate(msg.val)) =>
        \E shape \in {ShapeOfBlocks(BlocksIn(msg.val))} :
        \E shared \in {SharedIn(msg.val)} :
            /\ Len(result.val.val) = Len(shape)
            /\ \A i \in 1..Len(result.val.val) :
                  IsAnnounce(result.val.val[i]) =>
                     /\ result.val.val[i].next_hop = shape[i].next_hop
                     /\ SharedOf(result.val.val[i]) = shared
            /\ \A i, j \in 1..Len(result.val.val) :
                  (IsAnnounce(result.val.val[i])
                      /\ IsAnnounce(result.val.val[j]))
                     => SharedOf(result.val.val[i])
                          = SharedOf(result.val.val[j])

\* Two blocks with different next hops have one prefix each, and the message
\* has a path, an origin, a MED, communities and an aggregator.
C11_Witness ==
    /\ AtReturn /\ result.val.ok /\ IsUpdate(msg.val)
    /\ FullUpdate(msg.val)
    /\ Len(BlocksIn(msg.val)) = 2
    /\ BlocksIn(msg.val)[1].next_hop # BlocksIn(msg.val)[2].next_hop
    /\ Len(BlocksIn(msg.val)[1].prefixes) = 1
    /\ Len(BlocksIn(msg.val)[2].prefixes) = 1
    /\ \E i, j \in 1..Len(result.val.val) :
          /\ i # j
          /\ IsAnnounce(result.val.val[i]) /\ IsAnnounce(result.val.val[j])
          /\ result.val.val[i].next_hop # result.val.val[j].next_hop
          /\ result.val.val[i].aggr_asn.some
          /\ result.val.val[i].communities.some

\* The call has failed with IncorrectJson or with an error about the content
\* of a field, and not with the end of the RIB.
FailedOnMessage ==
    /\ HasReturned
    /\ ~result.val.ok
    /\ ~IsEndOfRib(result.val)

\* The reader is inside its loop: the body is at work on the message, or it
\* is over and the next read follows.
InLoop == pc \in {"read", "parse", "announcements", "returned", "printed"}

\* C12: after parse_ris_live_message fails on a message with IncorrectJson or
\* with an error about the content of a field, the reader stays in its loop
\* and goes on to read the next message, as it does after the end of the RIB.
C12_ReaderContinues == FailedOnMessage => InLoop

\* What a failing check reports: the kind of the error and what it carries.
Report(kind, val) == [kind |-> kind, val |-> val]

NoReport == [kind |-> "none"]

\* The first literal of the list that is no prefix, "eor" as the end of the
\* RIB and any other as an incorrect prefix.
RECURSIVE FirstBadLiteral(_)
FirstBadLiteral(lits) ==
    IF lits = <<>> THEN NoReport
    ELSE IF IsPrefix(Head(lits)) THEN FirstBadLiteral(Tail(lits))
    ELSE IF Head(lits) = TxtEor THEN Report("ElemEndOfRibPrefix", TxtEor)
    ELSE Report("ElemIncorrectPrefix", Head(lits))

\* The first failing check among the blocks, in the order of the message:
\* the next hop of a block, its prefixes, its withdrawals.
RECURSIVE FirstBlockFailure(_, _)
OrLaterBlock(f, blocks, w) ==
    IF f # NoReport THEN f ELSE FirstBlockFailure(blocks, w)

FirstBlockFailure(blocks, w) ==
    IF blocks = <<>> THEN NoReport
    ELSE IF ~ParseIpAddr(Head(blocks).next_hop).ok
    THEN Report("IncorrectJson", w)
    ELSE OrLaterBlock(FirstBadLiteral(Literals(Head(blocks))), Tail(blocks), w)

\* The first failing check of an UPDATE in the order: decoding, peer, peer
\* ASN, origin, aggregator, then the blocks.
FirstFailure(w) ==
    IF SchemaFault(w) THEN Report("IncorrectJson", w)
    ELSE IF ~ParseIpAddr(w.peer).ok THEN Report("IncorrectJson", w)
    ELSE IF ~ParseU32(w.peer_asn).ok THEN Report("IncorrectJson", w)
    ELSE IF ~ParseOrigin(w.origin).ok
    THEN Report("ElemUnknownOriginType", w.origin.val)
    ELSE IF ~ParseAggregator(w.aggregator, w).ok
    THEN Report(ParseAggregator(w.aggregator, w).err.kind,
                ParseAggregator(w.aggregator, w).err.val)
    ELSE FirstBlockFailure(BlocksIn(w), w)

Reports(r, f) ==
    /\ ~r.ok
    /\ r.err.kind = f.kind
    /\ f.kind # "ElemEndOfRibPrefix" => r.err.val = f.val

====
